---- MODULE Spec2Model ----
(***************************************************************************)
(* Binlog synchronisation core: the position store (masterInfo), the       *)
(* handler registry and dispatcher of the Canal (RegisterRowsEventHandler, *)
(* processRowsEventHandler, flushEventHandlers) and the Canal's read loop. *)
(*                                                                         *)
(* Time is counted in units of 100ms.  A binlog file name is modelled by   *)
(* its sequence number (mysql-bin.00000N is N).                            *)
(***************************************************************************)
EXTENDS Integers, Sequences, FiniteSets, TLC

\* ------------------------------------------------------------------ bounds
\* total number of handler registrations
MaxRegs == 2
\* number of items (row events, rotations) taken from the stream
MaxEvents == 2
\* the clock readings stay within BootTime .. BootTime + MaxElapsed
MaxElapsed == 21

\* ------------------------------------------------------- values and inputs
\* time.Second in units of 100ms
Second == 10
\* uint32 holds 0 .. UintRange - 1 (the width is scaled down: 2^5 for 2^32)
UintRange == 32

Handlers == {"h1", "h2"}
\* the table names of the rows events; the empty name is one of them
Tables == {"orders", "customers", ""}
\* the filters handlers are registered under: a table name, or the empty
\* filter, which binds a handler to all tables
Filters == {"orders", ""}
\* what a handler's Do or Complete returns: nil, an error of kind
\* Interrupted, an error of another kind
Outcomes == {"None", "Interrupted", "Other"}
\* the steps by which two successive readings of time.Now() differ:
\* nothing, 900ms, 1s, 1100ms
Elapsed == {0, 9, 10, 11}
\* the same between two saves of the Canal: nothing, 1s
CanalElapsed == {0, Second}
\* the first reading of the clock; the zero time.Time is 0, far before it
BootTime == 10 * Second
\* what SHOW MASTER STATUS answers: a failed query, a result whose first or
\* second column cannot be read, or a file and an offset
StatusResults ==
    {[kind |-> k, name |-> 0, pos |-> 0] : k \in {"execErr", "col0Err", "col1Err"}}
        \cup {[kind |-> "ok", name |-> 5, pos |-> p] : p \in {6, UintRange + 6}}
\* the goroutines that call Update and Pos on one masterInfo
Threads == {1, 2}
\* the arguments of their calls of Update
UpdateArgs == {[Name |-> 5, Pos |-> 4], [Name |-> 6, Pos |-> 7]}
\* the offset of the first event of a binlog file
RotatePositions == {4}

VARIABLES
    state,       \* Canal life cycle: Stopped, Initializing, Running, Stopping
    pc,          \* position of the Canal's consumer goroutine
    result,      \* what the Canal's run returned to its caller
    rsHandlers,  \* Canal.rsHandlers: map from filter to list of handlers
    rsReaders,   \* Canal.rsMu: number of holders of the read lock
    cur,         \* the stream item being handled, if any
    evNo,        \* number of stream items taken so far
    up,          \* head of the upstream log: [file, pos]
    tasks,       \* goroutines of the errgroup of the current cycle; those
                 \* that returned are forgotten when the consumer goes on
    erg,         \* the errgroup: first error, context cancelled
    verdict,     \* what the last processRowsEventHandler/flushEventHandlers returned
    master,      \* masterInfo: [Name, Position, lastSaveTime]
    now,         \* last reading of the clock
    l,           \* masterInfo.l: the goroutine that holds it, or 0
    thr,         \* the goroutines calling Update and Pos: what each is at
    written,     \* history: the (name, offset) pairs given to Update
    durable,     \* durable storage: <<>>, or <<r>> for a record r
    disk,        \* durable storage: "ok", or "failing" (a write would fail)
    lastCall,    \* history: the last call of masterInfo.Save
    lastLoad,    \* history: the call of loadMasterInfo on the store alone
    expectPos,   \* history: position of the last successfully handled item
    cause,       \* history: why the Canal left Running
    stopTrace    \* history: the steps taken since the Canal left Running

vars == <<state, pc, result, rsHandlers, rsReaders, cur, evNo, up, tasks, erg,
          verdict, master, now, l, thr, written, durable, disk, lastCall,
          lastLoad, expectPos, cause, stopTrace>>

regVars == <<rsHandlers, rsReaders>>
cycleVars == <<tasks, erg, verdict>>
storeVars == <<master, now, durable, disk, lastCall>>
histVars == <<expectPos, cause, stopTrace>>

\* --------------------------------------------------------------- helpers
Range(s) == {s[i] : i \in DOMAIN s}

RECURSIVE SumSeq(_)
SumSeq(s) == IF s = <<>> THEN 0 ELSE Head(s) + SumSeq(Tail(s))

\* number of occurrences of h in the list s
Count(h, s) == Cardinality({i \in DOMAIN s : s[i] = h})

NoEvent == [kind |-> "none", table |-> "", file |-> 0, pos |-> 0, no |-> 0]
NoCall == [called |-> FALSE, force |-> FALSE, at |-> 0, prev |-> 0,
           persisted |-> FALSE, disk |-> "ok", ret |-> "nil",
           prevForce |-> FALSE, prevAt |-> 0]
NoThread == [op |-> "none", pc |-> "idle", name |-> 0, pos |-> 0]
NoLoad == [called |-> FALSE, res |-> <<>>, ret |-> <<>>]
NoErg == [err |-> "nil", from |-> 0, cancelled |-> FALSE]

\* -------------------------------------------------------- position store
\* the conversion uint32(pos)
\* (variant) a conversion that saturates at the largest uint32
Uint32Saturating(v) == IF v >= UintRange THEN UintRange - 1 ELSE v

\* uint32(v)
Uint32(v) == v % UintRange

\* the errors of loadMasterInfo for a column of the result that cannot be
\* read: the failures the error taxonomy calls DataUnavailable
DataUnavailable ==
    {"Failed to fetch first row with 1st column",
     "Failed to fetch first row with 2nd column"}

\* (variant) a load that ignores the error of the second column
loadMasterInfoPartial(res) ==
    CASE res.kind = "execErr" ->
             [err |-> "Failed to execute SHOW MASTER STATUS", m |-> <<>>]
      [] res.kind = "col0Err" ->
             [err |-> "Failed to fetch first row with 1st column", m |-> <<>>]
      [] OTHER -> [err |-> "nil",
                   m |-> [Name |-> res.name, Position |-> Uint32(res.pos),
                          lastSaveTime |-> 0]]

\* (variant) a load that stamps the masterInfo with the time of loading
loadMasterInfoStamped(res) ==
    CASE res.kind = "execErr" ->
             [err |-> "Failed to execute SHOW MASTER STATUS", m |-> <<>>]
      [] res.kind = "col0Err" ->
             [err |-> "Failed to fetch first row with 1st column", m |-> <<>>]
      [] res.kind = "col1Err" ->
             [err |-> "Failed to fetch first row with 2nd column", m |-> <<>>]
      [] OTHER -> [err |-> "nil",
                   m |-> [Name |-> res.name, Position |-> Uint32(res.pos),
                          lastSaveTime |-> now]]

\* loadMasterInfo: the error (the collaborator's error, wrapped with a
\* message) or the masterInfo built from the query result
loadMasterInfo(res) ==
    CASE res.kind = "execErr" ->
             [err |-> "Failed to execute SHOW MASTER STATUS", m |-> <<>>]
      [] res.kind = "col0Err" ->
             [err |-> "Failed to fetch first row with 1st column", m |-> <<>>]
      [] res.kind = "col1Err" ->
             [err |-> "Failed to fetch first row with 2nd column", m |-> <<>>]
      [] OTHER -> [err |-> "nil",
                   m |-> [Name |-> res.name, Position |-> Uint32(res.pos),
                          lastSaveTime |-> 0]]

\* (variant) the debounce test with the bound included
SaveDebouncedInclusive(m, force, n) == ~force /\ n - m.lastSaveTime <= Second

\* the debounce test of Save: not forced and less than a second since the
\* last save
SaveDebounced(m, force, n) == ~force /\ n - m.lastSaveTime < Second

\* (variant) a Save whose forced path leaves the timestamp alone
SaveInfoForcedNoStamp(m, force, n) ==
    IF force \/ SaveDebounced(m, force, n)
    THEN m ELSE [m EXCEPT !.lastSaveTime = n]

\* masterInfo.Save(force) at clock reading n: the masterInfo afterwards
SaveInfo(m, force, n) ==
    IF SaveDebounced(m, force, n) THEN m ELSE [m EXCEPT !.lastSaveTime = n]

\* (variant) Update that leaves the offset alone
UpdateInfoNameOnly(m, name, pos) == [m EXCEPT !.Name = name]

\* (variant) an Update that replaces the masterInfo by a new one
UpdateInfoReplace(m, name, pos) ==
    [Name |-> name, Position |-> pos, lastSaveTime |-> 0]

\* (variant) an Update that stores the offset alone
UpdateInfoPosOnly(m, name, pos) == [m EXCEPT !.Position = pos]

\* masterInfo.Update(name, pos)
UpdateInfo(m, name, pos) == [m EXCEPT !.Name = name, !.Position = pos]

\* masterInfo.Pos()
Pos(m) == [Name |-> m.Name, Pos |-> m.Position]

\* a call of Save(force), when the clock has advanced by one of steps since
\* its last reading: time.Now() is read, the save is debounced or done, nil
\* is returned.  The write of the record is commented out in Save ("todo:
\* implement saving"): durable storage is neither written nor looked at.
Save(force, steps) ==
    \E d \in steps :
        /\ now + d <= BootTime + MaxElapsed
        /\ now' = now + d
        /\ master' = SaveInfo(master, force, now + d)
        /\ lastCall' = [called |-> TRUE, force |-> force, at |-> now + d,
                        prev |-> master.lastSaveTime,
                        persisted |-> ~SaveDebounced(master, force, now + d),
                        disk |-> disk, ret |-> "nil",
                        prevForce |-> lastCall.force, prevAt |-> lastCall.at]
        /\ UNCHANGED <<durable, disk>>

\* (variant) Close that does not force the save
CloseUnforced(steps) == Save(FALSE, steps)

\* masterInfo.Close()
Close(steps) == Save(TRUE, steps)

\* ------------------------------------------------------ handler registry
\* c.rsHandlers[k]: the list of a missing key is the nil slice
Lookup(reg, k) == IF k \in DOMAIN reg THEN reg[k] ELSE <<>>

\* total number of registrations
RegCount(reg) ==
    Cardinality({ki \in Filters \X (1..MaxRegs) :
                    ki[1] \in DOMAIN reg /\ ki[2] \in DOMAIN reg[ki[1]]})

\* (variant) a registration that assigns the list of tableName
RegisterRowsEventHandlerOverwrite(reg, tableName, hs) ==
    [k \in DOMAIN reg \cup {tableName} |->
        IF k = tableName THEN hs ELSE reg[k]]

\* RegisterRowsEventHandler(tableName, h...): the map is made on first use,
\* and h... is appended to the list of tableName
RegisterRowsEventHandler(reg, tableName, hs) ==
    [k \in DOMAIN reg \cup {tableName} |->
        IF k = tableName THEN Lookup(reg, k) \o hs ELSE reg[k]]

\* (variant) a dispatch that ignores the table's name: every handler of the
\* registry
HandlersForAll(reg, tableName) == Lookup(reg, "orders") \o Lookup(reg, "")

\* (variant) the handlers of the empty filter first
HandlersForWildcardFirst(reg, tableName) ==
    Lookup(reg, "") \o
        (IF tableName \in DOMAIN reg /\ tableName # "" THEN reg[tableName] ELSE <<>>)

\* (variant) a lookup of the table's name that is made for the empty name too
HandlersForNoSkip(reg, tableName) ==
    Lookup(reg, tableName) \o Lookup(reg, "")

\* (variant) the handlers of the table's name alone
HandlersForExact(reg, tableName) ==
    IF tableName \in DOMAIN reg /\ tableName # "" THEN reg[tableName] ELSE <<>>

\* the handlers processRowsEventHandler starts a goroutine for, in the order
\* of the calls of erg.Go: those of the table's name unless it is empty, then
\* those of the empty filter
HandlersFor(reg, tableName) ==
    (IF tableName \in DOMAIN reg /\ tableName # "" THEN reg[tableName] ELSE <<>>)
        \o Lookup(reg, "")

\* the argument lists h... of a call of RegisterRowsEventHandler
RegArgs == {<<h>> : h \in Handlers} \cup {<<"h1", "h2">>}

\* the orders in which a range over the keys of the map can visit them
KeyOrders(reg) ==
    {o \in [1..Cardinality(DOMAIN reg) -> DOMAIN reg] :
        \A i, j \in DOMAIN o : i # j => o[i] # o[j]}

\* (variant) a flush that starts one goroutine per filter, for its first
\* handler
FlushListPerTable(reg, o) ==
    [i \in DOMAIN o |-> [tbl |-> o[i], h |-> reg[o[i]][1]]]

\* the (filter, handler) pairs flushEventHandlers starts a goroutine for,
\* when the range over the map visits its keys in the order o
RECURSIVE FlushList(_, _)
FlushList(reg, o) ==
    IF o = <<>> THEN <<>>
    ELSE [i \in DOMAIN reg[Head(o)] |-> [tbl |-> Head(o), h |-> reg[Head(o)][i]]]
             \o FlushList(reg, Tail(o))

\* ------------------------------------------------------------- errgroup
\* a goroutine started by erg.Go, before its function has returned
NewTask(h, op, no) ==
    [h |-> h, op |-> op, ev |-> no, st |-> "started",
     out |-> "pending", ret |-> "nil", calls |-> 0]

\* (variant) errGoFn that returns every error of Do
errGoFnAnyError(t, outcome) ==
    [t EXCEPT !.st = "done", !.out = outcome, !.calls = @ + 1,
              !.ret = IF outcome # "None" THEN outcome ELSE "nil"]

\* (variant) errGoFn that calls Do once more after an error of another kind
errGoFnRetry(t, outcome) ==
    [t EXCEPT !.st = IF outcome = "Other" /\ t.calls = 0 THEN "started" ELSE "done",
              !.out = outcome, !.calls = @ + 1,
              !.ret = IF outcome = "Interrupted" THEN "Interrupted" ELSE "nil"]

\* the function errGoFn(h) run by a goroutine of processRowsEventHandler:
\* h.Do is called once; its error is logged and, if it is of kind
\* Interrupted, returned
errGoFn(t, outcome) ==
    [t EXCEPT !.st = "done", !.out = outcome, !.calls = @ + 1,
              !.ret = IF outcome = "Interrupted" THEN "Interrupted" ELSE "nil"]

\* (variant) a goroutine of flushEventHandlers that returns every error
\* of Complete
completeGoFnAnyError(t, outcome) ==
    [t EXCEPT !.st = "done", !.out = outcome, !.calls = @ + 1,
              !.ret = IF outcome = "None" THEN "nil" ELSE outcome]

\* (variant) a goroutine of flushEventHandlers that returns no error
completeGoFnSwallow(t, outcome) ==
    [t EXCEPT !.st = "done", !.out = outcome, !.calls = @ + 1, !.ret = "nil"]

\* the function run by a goroutine of flushEventHandlers: the same with
\* h.Complete
completeGoFn(t, outcome) ==
    [t EXCEPT !.st = "done", !.out = outcome, !.calls = @ + 1,
              !.ret = IF outcome = "Interrupted" THEN "Interrupted" ELSE "nil"]

\* (variant) a group that keeps the result of the goroutine that returned
\* last
ErgReturnedLast(g, i, t) ==
    [err |-> t.ret, from |-> i, cancelled |-> g.cancelled \/ t.ret # "nil"]

\* (variant) a group made without a context: an error cancels nothing
ErgReturnedNoCancel(g, i, t) ==
    IF t.ret # "nil" /\ g.err = "nil"
    THEN [err |-> t.ret, from |-> i, cancelled |-> FALSE]
    ELSE g

\* errgroup.Group.Go, when the function of goroutine i has returned: the
\* first error is kept and cancels the context
ErgReturned(g, i, t) ==
    IF t.ret # "nil" /\ g.err = "nil"
    THEN [err |-> t.ret, from |-> i, cancelled |-> TRUE]
    ELSE g

\* (variant) Wait that returns when one goroutine has returned
WaitReadyAny(ts) == ts = <<>> \/ \E i \in DOMAIN ts : ts[i].st = "done"

\* (variant) Wait that returns at the first error
WaitReadyFirstError(ts) ==
    \/ \A i \in DOMAIN ts : ts[i].st = "done"
    \/ \E i \in DOMAIN ts : ts[i].st = "done" /\ ts[i].ret # "nil"

\* (variant) Wait that does not return for a group without goroutines
WaitReadyNonEmpty(ts) ==
    ts # <<>> /\ \A i \in DOMAIN ts : ts[i].st = "done"

\* (variant) Wait that does not wait
WaitReadyNever(ts) == TRUE

\* errgroup.Group.Wait returns when every goroutine of the group has returned
WaitReady(ts) == \A i \in DOMAIN ts : ts[i].st = "done"

\* what Wait returns, and the group after it: the context is cancelled
WaitResult(g) == g.err
WaitDone(g) == [g EXCEPT !.cancelled = TRUE]

\* the group after the goroutines of ts have returned in the order o
RECURSIVE WaitAfter(_, _, _)
WaitAfter(g, ts, o) ==
    IF o = <<>> THEN g
    ELSE WaitAfter(ErgReturned(g, Head(o), ts[Head(o)]), ts, Tail(o))

\* the goroutines still running
Running(ts) == SelectSeq(ts, LAMBDA t : t.st = "started")

\* ----------------------------------------------------------------- Init
Init ==
    /\ state = "Stopped"
    /\ pc = "init"
    /\ result = "none"
    /\ rsHandlers = <<>>
    /\ rsReaders = 0
    /\ cur = NoEvent
    /\ evNo = 0
    /\ up = [file |-> 0, pos |-> 0]
    /\ tasks = <<>>
    /\ erg = NoErg
    /\ verdict = "nil"
    /\ master = [Name |-> 0, Position |-> 0, lastSaveTime |-> 0]
    /\ now = BootTime
    /\ l = 0
    /\ thr = [t \in Threads |-> NoThread]
    /\ written = {}
    /\ durable = <<>>
    /\ disk = "ok"
    /\ lastCall = NoCall
    /\ lastLoad = NoLoad
    /\ expectPos = [Name |-> 0, Pos |-> 0]
    /\ cause = "none"
    /\ stopTrace = <<>>

\* ------------------------------------------------------------- registry
\* (variant) a registration that does not take the lock
RegisterNoLock(tableName, hs) ==
    /\ RegCount(rsHandlers) + Len(hs) <= MaxRegs
    /\ rsHandlers' = RegisterRowsEventHandler(rsHandlers, tableName, hs)
    /\ UNCHANGED <<state, pc, result, rsReaders, cur, evNo, up, tasks, erg,
                   verdict, master, now, lastCall, expectPos, cause, stopTrace,
                   durable, disk, lastLoad, l, thr, written>>

\* a call of RegisterRowsEventHandler by any goroutine: it takes the write
\* lock of rsMu, which no reader may hold
Register(tableName, hs) ==
    /\ rsReaders = 0
    /\ RegCount(rsHandlers) + Len(hs) <= MaxRegs
    /\ rsHandlers' = RegisterRowsEventHandler(rsHandlers, tableName, hs)
    /\ UNCHANGED <<state, pc, result, rsReaders, cur, evNo, up, tasks, erg,
                   verdict, master, now, lastCall, expectPos, cause, stopTrace,
                   durable, disk, lastLoad, l, thr, written>>

\* ----------------------------------------------------------- dispatcher
\* the Canal takes a rows event of table tableName from the stream and
\* calls processRowsEventHandler, which takes the read lock and starts one
\* goroutine per resolved handler
DispatchBegin(tableName) ==
    /\ state = "Running" /\ pc = "idle"
    /\ evNo < MaxEvents
    /\ evNo' = evNo + 1
    /\ up' = [up EXCEPT !.pos = @ + 1]
    /\ cur' = [kind |-> "rows", table |-> tableName, file |-> up.file,
               pos |-> up.pos + 1, no |-> evNo + 1]
    /\ rsReaders' = rsReaders + 1
    /\ tasks' = Running(tasks) \o
                [i \in DOMAIN HandlersFor(rsHandlers, tableName) |->
                    NewTask(HandlersFor(rsHandlers, tableName)[i], "Do", evNo + 1)]
    /\ erg' = NoErg
    /\ pc' = "dispatching"
    /\ UNCHANGED <<state, result, rsHandlers, verdict, master, now, lastCall,
                   expectPos, cause, stopTrace,
                   durable, disk, lastLoad, l, thr, written>>

\* the goroutine of task i runs the handler's Do, which returns outcome
TaskDo(i, outcome) ==
    /\ i \in DOMAIN tasks
    /\ tasks[i].st = "started" /\ tasks[i].op = "Do"
    /\ tasks' = [tasks EXCEPT ![i] = errGoFn(tasks[i], outcome)]
    /\ erg' = IF tasks'[i].st = "done" /\ tasks[i].ev = cur.no
              THEN ErgReturned(erg, i, tasks'[i]) ELSE erg
    /\ UNCHANGED <<state, pc, result, rsHandlers, rsReaders, cur, evNo, up,
                   verdict, master, now, lastCall, expectPos, cause, stopTrace,
                   durable, disk, lastLoad, l, thr, written>>

\* erg.Wait returns in processRowsEventHandler, which releases the read
\* lock and returns the verdict
DispatchEnd ==
    /\ pc = "dispatching"
    /\ WaitReady(tasks)
    /\ verdict' = WaitResult(erg)
    /\ erg' = WaitDone(erg)
    /\ rsReaders' = rsReaders - 1
    /\ pc' = "dispatched"
    /\ expectPos' = IF WaitResult(erg) = "nil"
                    THEN [Name |-> cur.file, Pos |-> cur.pos] ELSE expectPos
    /\ UNCHANGED <<state, result, rsHandlers, cur, evNo, up, tasks, master,
                   now, lastCall, cause, stopTrace,
                   durable, disk, lastLoad, l, thr, written>>

\* ---------------------------------------------------------------- flush
\* flushEventHandlers takes the read lock and starts one goroutine per
\* registration: on a rotation event in Running, or when stopping
FlushBegin ==
    /\ \/ state = "Running" /\ pc = "idle" /\ evNo < MaxEvents
       \/ state = "Stopping" /\ pc = "stop"
    /\ IF state = "Running"
       THEN /\ evNo' = evNo + 1
            /\ \E p \in RotatePositions :
                  cur' = [kind |-> "rotate", table |-> "", file |-> up.file + 1,
                          pos |-> p, no |-> evNo + 1]
       ELSE UNCHANGED <<evNo, cur>>
    /\ rsReaders' = rsReaders + 1
    /\ \E o \in KeyOrders(rsHandlers) :
          tasks' = Running(tasks) \o
                   [i \in DOMAIN FlushList(rsHandlers, o) |->
                       NewTask(FlushList(rsHandlers, o)[i].h, "Complete", cur'.no)]
    /\ erg' = NoErg
    /\ pc' = "flushing"
    /\ UNCHANGED <<state, result, rsHandlers, up, verdict, master, now,
                   lastCall, expectPos, cause, stopTrace,
                   durable, disk, lastLoad, l, thr, written>>

\* the goroutine of task i runs the handler's Complete, which returns outcome
TaskComplete(i, outcome) ==
    /\ i \in DOMAIN tasks
    /\ tasks[i].st = "started" /\ tasks[i].op = "Complete"
    /\ tasks' = [tasks EXCEPT ![i] = completeGoFn(tasks[i], outcome)]
    /\ erg' = IF tasks'[i].st = "done" /\ tasks[i].ev = cur.no
              THEN ErgReturned(erg, i, tasks'[i]) ELSE erg
    /\ UNCHANGED <<state, pc, result, rsHandlers, rsReaders, cur, evNo, up,
                   verdict, master, now, lastCall, expectPos, cause, stopTrace,
                   durable, disk, lastLoad, l, thr, written>>

\* erg.Wait returns in flushEventHandlers, which releases the read lock and
\* returns the verdict
FlushEnd ==
    /\ pc = "flushing"
    /\ WaitReady(tasks)
    /\ verdict' = WaitResult(erg)
    /\ erg' = WaitDone(erg)
    /\ rsReaders' = rsReaders - 1
    /\ pc' = "flushed"
    /\ stopTrace' = IF state = "Stopping" THEN Append(stopTrace, "flush")
                    ELSE stopTrace
    /\ UNCHANGED <<state, result, rsHandlers, cur, evNo, up, tasks, master,
                   now, lastCall, expectPos, cause,
                   durable, disk, lastLoad, l, thr, written>>

\* ---------------------------------------------------------------- Canal
\* (variant) a Canal that goes on whatever the verdict
OnVerdictIgnore(v) == "continue"

\* what the Canal does with the verdict of a dispatch or of a rotation
\* flush: it goes on, or it stops on Interrupted
OnVerdict(v) == IF v = "nil" THEN "continue" ELSE "stop"

\* the Canal is started
Start ==
    /\ state = "Stopped" /\ pc = "init"
    /\ state' = "Initializing"
    /\ pc' = "load"
    /\ UNCHANGED <<result, rsHandlers, rsReaders, cur, evNo, up, tasks, erg,
                   verdict, master, now, lastCall, expectPos, cause, stopTrace,
                   durable, disk, lastLoad, l, thr, written>>

\* Initializing: the position is loaded from the answer res of the upstream;
\* a failure ends the run, a position starts the stream at it
Load(res) ==
    /\ state = "Initializing" /\ pc = "load"
    /\ IF loadMasterInfo(res).err # "nil"
       THEN /\ state' = "Stopped"
            /\ pc' = "done"
            /\ result' = loadMasterInfo(res).err
            /\ UNCHANGED <<master, up, expectPos>>
       ELSE /\ state' = "Running"
            /\ pc' = "idle"
            /\ master' = loadMasterInfo(res).m
            /\ up' = [file |-> master'.Name, pos |-> master'.Position]
            /\ expectPos' = Pos(master')
            /\ UNCHANGED result
    /\ UNCHANGED <<rsHandlers, rsReaders, cur, evNo, tasks, erg, verdict, now,
                   lastCall, cause, stopTrace,
                   durable, disk, lastLoad, l, thr, written>>

\* Running, the dispatch of a rows event returned success: the position is
\* updated with the event's position
CanalUpdate ==
    /\ state = "Running" /\ pc = "dispatched"
    /\ OnVerdict(verdict) = "continue"
    /\ master' = UpdateInfo(master, cur.file, cur.pos)
    /\ pc' = "updated"
    /\ tasks' = Running(tasks)
    /\ erg' = NoErg
    /\ UNCHANGED <<state, result, rsHandlers, rsReaders, cur, evNo, up, verdict, now, lastCall, expectPos, cause, stopTrace,
                   durable, disk, lastLoad, l, thr, written>>

\* ... and saved if the last save is old enough
CanalSave ==
    /\ state = "Running" /\ pc = "updated"
    /\ Save(FALSE, CanalElapsed)
    /\ pc' = "idle"
    /\ cur' = NoEvent
    /\ UNCHANGED <<state, result, rsHandlers, rsReaders, evNo, up, tasks,
                   erg, verdict, expectPos, cause, stopTrace, lastLoad, l, thr, written>>

\* Running, the flush of a rotation event returned success: the rotation is
\* applied to the position
RotateUpdate ==
    /\ state = "Running" /\ pc = "flushed"
    /\ OnVerdict(verdict) = "continue"
    /\ master' = UpdateInfo(master, cur.file, cur.pos)
    /\ up' = [file |-> cur.file, pos |-> cur.pos]
    /\ expectPos' = [Name |-> cur.file, Pos |-> cur.pos]
    /\ pc' = "rotated"
    /\ UNCHANGED <<state, result, rsHandlers, rsReaders, cur, evNo, tasks, erg, verdict, now, lastCall, cause, stopTrace,
                   durable, disk, lastLoad, l, thr, written>>

\* ... and the save is forced
RotateSave ==
    /\ state = "Running" /\ pc = "rotated"
    /\ Save(TRUE, CanalElapsed)
    /\ pc' = "idle"
    /\ cur' = NoEvent
    /\ tasks' = Running(tasks)
    /\ erg' = NoErg
    /\ UNCHANGED <<state, result, rsHandlers, rsReaders, evNo, up, verdict, expectPos, cause, stopTrace, lastLoad, l, thr, written>>

\* Running, a dispatch or a rotation flush returned Interrupted: the Canal
\* stops
CanalInterrupt ==
    /\ state = "Running" /\ pc \in {"dispatched", "flushed"}
    /\ OnVerdict(verdict) = "stop"
    /\ state' = "Stopping"
    /\ pc' = "stop"
    /\ cause' = "interrupted"
    /\ tasks' = Running(tasks)
    /\ erg' = NoErg
    /\ cur' = NoEvent
    /\ UNCHANGED <<result, rsHandlers, rsReaders, evNo, up, verdict, master, now, lastCall, expectPos, stopTrace,
                   durable, disk, lastLoad, l, thr, written>>

\* Running, a shutdown is requested: the Canal stops
Shutdown ==
    /\ state = "Running" /\ pc = "idle"
    /\ state' = "Stopping"
    /\ pc' = "stop"
    /\ cause' = "shutdown"
    /\ UNCHANGED <<result, rsHandlers, rsReaders, cur, evNo, up, tasks, erg,
                   verdict, master, now, lastCall, expectPos, stopTrace,
                   durable, disk, lastLoad, l, thr, written>>

\* Stopping, after the flush: the position store is closed
StopSave ==
    /\ state = "Stopping" /\ pc = "flushed"
    /\ Close(CanalElapsed)
    /\ pc' = "saved"
    /\ stopTrace' = Append(stopTrace,
                           IF lastCall'.persisted THEN "save" ELSE "debounced")
    /\ tasks' = Running(tasks)
    /\ erg' = NoErg
    /\ UNCHANGED <<state, result, rsHandlers, rsReaders, cur, evNo, up, verdict, expectPos, cause, lastLoad, l, thr, written>>

\* ... the upstream subscription is closed
StopCloseSub ==
    /\ state = "Stopping" /\ pc = "saved"
    /\ pc' = "closed"
    /\ stopTrace' = Append(stopTrace, "close")
    /\ UNCHANGED <<state, result, rsHandlers, rsReaders, cur, evNo, up, tasks,
                   erg, verdict, master, now, lastCall, expectPos, cause,
                   durable, disk, lastLoad, l, thr, written>>

\* ... and the run returns to its caller
StopDone ==
    /\ state = "Stopping" /\ pc = "closed"
    /\ state' = "Stopped"
    /\ pc' = "done"
    /\ result' = IF cause = "interrupted" \/ verdict # "nil"
                 THEN "Interrupted" ELSE "nil"
    /\ UNCHANGED <<rsHandlers, rsReaders, cur, evNo, up, tasks, erg, verdict,
                   master, now, lastCall, expectPos, cause, stopTrace,
                   durable, disk, lastLoad, l, thr, written>>

\* ------------------------------------------------------------------ Next
Next ==
    \/ \E t \in Filters, hs \in RegArgs : Register(t, hs)
    \/ Start
    \/ \E res \in StatusResults : Load(res)
    \/ \E t \in Tables : DispatchBegin(t)
    \/ \E i \in 1..MaxRegs, o \in Outcomes : TaskDo(i, o)
    \/ DispatchEnd
    \/ CanalUpdate
    \/ CanalSave
    \/ FlushBegin
    \/ \E i \in 1..MaxRegs, o \in Outcomes : TaskComplete(i, o)
    \/ FlushEnd
    \/ RotateUpdate
    \/ RotateSave
    \/ CanalInterrupt
    \/ Shutdown
    \/ StopSave
    \/ StopCloseSub
    \/ StopDone

Spec == Init /\ [][Next]_vars

\* the same with every goroutine scheduled again and again: a handler's Do
\* or Complete that was called returns, Wait returns when it may, and the
\* Canal's consumer takes its next step.  No event, rotation, registration
\* or shutdown request has to arrive.
Fairness ==
    /\ \A i \in 1..MaxRegs :
          /\ WF_vars(\E o \in Outcomes : TaskDo(i, o))
          /\ WF_vars(\E o \in Outcomes : TaskComplete(i, o))
    /\ WF_vars(DispatchEnd) /\ WF_vars(FlushEnd)
    /\ WF_vars(CanalUpdate) /\ WF_vars(CanalSave)
    /\ WF_vars(RotateUpdate) /\ WF_vars(RotateSave)
    /\ WF_vars(CanalInterrupt)
    /\ WF_vars(state = "Stopping" /\ FlushBegin)
    /\ WF_vars(StopSave) /\ WF_vars(StopCloseSub) /\ WF_vars(StopDone)

LiveSpec == Spec /\ Fairness

\* ------------------------------------- handlers that register handlers
\* the handler run by goroutine i calls RegisterRowsEventHandler(tableName,
\* hs) from inside its Do or Complete: rsMu.Lock() returns, and the handlers
\* are appended, if no reader holds rsMu; the goroutine waits in it otherwise
HandlerRegister(i, tableName, hs) ==
    /\ i \in DOMAIN tasks
    /\ tasks[i].st \in {"started", "registering"}
    /\ IF rsReaders = 0
       THEN /\ RegCount(rsHandlers) + Len(hs) <= MaxRegs
            /\ rsHandlers' = RegisterRowsEventHandler(rsHandlers, tableName, hs)
            /\ tasks' = [tasks EXCEPT ![i].st = "started"]
       ELSE /\ tasks' = [tasks EXCEPT ![i].st = "registering"]
            /\ UNCHANGED rsHandlers
    /\ UNCHANGED <<state, pc, result, rsReaders, cur, evNo, up, erg, verdict,
                   master, now, l, thr, written, durable, disk, lastCall,
                   lastLoad, expectPos, cause, stopTrace>>

ReentrantNext ==
    \/ Next
    \/ \E i \in 1..MaxRegs, t \in Filters, hs \in RegArgs :
          HandlerRegister(i, t, hs)

ReentrantSpec == Init /\ [][ReentrantNext]_vars

\* ---------------------------------------------- the position store alone
\* a client of the position store loads it, ...
StoreLoad(res) ==
    /\ pc = "init"
    /\ lastLoad' = [called |-> TRUE, res |-> res, ret |-> loadMasterInfo(res)]
    /\ IF loadMasterInfo(res).err # "nil"
       THEN /\ pc' = "done"
            /\ result' = loadMasterInfo(res).err
            /\ UNCHANGED master
       ELSE /\ pc' = "store"
            /\ master' = loadMasterInfo(res).m
            /\ UNCHANGED result
    /\ UNCHANGED <<state, rsHandlers, rsReaders, cur, evNo, up, tasks, erg,
                   verdict, now, lastCall, expectPos, cause, stopTrace,
                   durable, disk, l, thr, written>>

\* ... updates it, ...
StoreUpdate(name, pos) ==
    /\ pc = "store"
    /\ master' = UpdateInfo(master, name, pos)
    /\ UNCHANGED <<state, pc, result, rsHandlers, rsReaders, cur, evNo, up,
                   tasks, erg, verdict, now, lastCall, expectPos, cause,
                   stopTrace,
                   durable, disk, lastLoad, l, thr, written>>

\* ... saves it, ...
StoreSave(force) ==
    /\ pc = "store"
    /\ Save(force, Elapsed)
    /\ UNCHANGED <<state, pc, result, rsHandlers, rsReaders, cur, evNo, up,
                   tasks, erg, verdict, expectPos, cause, stopTrace, lastLoad, l, thr, written>>

\* ... and closes it
StoreClose ==
    /\ pc = "store"
    /\ Close(Elapsed)
    /\ pc' = "done"
    /\ UNCHANGED <<state, result, rsHandlers, rsReaders, cur, evNo, up, tasks,
                   erg, verdict, expectPos, cause, stopTrace, lastLoad, l, thr, written>>

\* durable storage starts or stops failing
StorageFault ==
    /\ pc = "store"
    /\ disk' = IF disk = "ok" THEN "failing" ELSE "ok"
    /\ UNCHANGED <<state, pc, result, rsHandlers, rsReaders, cur, evNo, up,
                   tasks, erg, verdict, master, now, durable, lastCall,
                   expectPos, cause, stopTrace, lastLoad, l, thr, written>>

StoreNext ==
    \/ \E res \in StatusResults : StoreLoad(res)
    \/ StorageFault
    \/ \E name \in {5, 6}, pos \in {4, 7} : StoreUpdate(name, pos)
    \/ \E force \in BOOLEAN : StoreSave(force)
    \/ StoreClose

StoreSpec == Init /\ [][StoreNext]_vars

\* --------------------------- the position store under concurrent callers
\* (variant) a lock that never makes its caller wait
CanLockAlways(holder) == TRUE

\* sync.Mutex.Lock returns when nobody holds the mutex
CanLock(holder) == holder = 0

\* goroutine t calls Update(a.Name, a.Pos) on the loaded store
CallUpdate(t, a) ==
    /\ pc = "store" /\ thr[t].pc = "idle"
    /\ thr' = [thr EXCEPT ![t] = [op |-> "Update", pc |-> "lock",
                                  name |-> a.Name, pos |-> a.Pos]]
    /\ written' = written \cup {a}
    /\ UNCHANGED <<state, pc, result, rsHandlers, rsReaders, cur, evNo, up,
                   tasks, erg, verdict, now, durable, disk, lastCall,
                   lastLoad, expectPos, cause, stopTrace, master, l>>

\* goroutine t calls Pos(): var pos mysql.Position
CallPos(t) ==
    /\ pc = "store" /\ thr[t].pc = "idle"
    /\ thr' = [thr EXCEPT ![t] = [op |-> "Pos", pc |-> "lock",
                                  name |-> 0, pos |-> 0]]
    /\ UNCHANGED <<state, pc, result, rsHandlers, rsReaders, cur, evNo, up,
                   tasks, erg, verdict, now, durable, disk, lastCall,
                   lastLoad, expectPos, cause, stopTrace, master, l, written>>

\* m.l.Lock() of Update and of Pos
Lock(t) ==
    /\ thr[t].pc = "lock"
    /\ CanLock(l)
    /\ l' = t
    /\ thr' = [thr EXCEPT ![t].pc = "name"]
    /\ UNCHANGED <<state, pc, result, rsHandlers, rsReaders, cur, evNo, up,
                   tasks, erg, verdict, now, durable, disk, lastCall,
                   lastLoad, expectPos, cause, stopTrace, master, written>>

\* Update: m.Name = name
UpdateName(t) ==
    /\ thr[t].op = "Update" /\ thr[t].pc = "name"
    /\ master' = [master EXCEPT !.Name = thr[t].name]
    /\ thr' = [thr EXCEPT ![t].pc = "pos"]
    /\ UNCHANGED <<state, pc, result, rsHandlers, rsReaders, cur, evNo, up,
                   tasks, erg, verdict, now, durable, disk, lastCall,
                   lastLoad, expectPos, cause, stopTrace, l, written>>

\* Update: m.Position = pos
UpdatePosition(t) ==
    /\ thr[t].op = "Update" /\ thr[t].pc = "pos"
    /\ master' = [master EXCEPT !.Position = thr[t].pos]
    /\ thr' = [thr EXCEPT ![t].pc = "unlock"]
    /\ UNCHANGED <<state, pc, result, rsHandlers, rsReaders, cur, evNo, up,
                   tasks, erg, verdict, now, durable, disk, lastCall,
                   lastLoad, expectPos, cause, stopTrace, l, written>>

\* Pos: pos.Name = m.Name
PosName(t) ==
    /\ thr[t].op = "Pos" /\ thr[t].pc = "name"
    /\ thr' = [thr EXCEPT ![t].name = master.Name, ![t].pc = "pos"]
    /\ UNCHANGED <<state, pc, result, rsHandlers, rsReaders, cur, evNo, up,
                   tasks, erg, verdict, now, durable, disk, lastCall,
                   lastLoad, expectPos, cause, stopTrace, master, l, written>>

\* Pos: pos.Pos = m.Position
PosPosition(t) ==
    /\ thr[t].op = "Pos" /\ thr[t].pc = "pos"
    /\ thr' = [thr EXCEPT ![t].pos = master.Position, ![t].pc = "unlock"]
    /\ UNCHANGED <<state, pc, result, rsHandlers, rsReaders, cur, evNo, up,
                   tasks, erg, verdict, now, durable, disk, lastCall,
                   lastLoad, expectPos, cause, stopTrace, master, l, written>>

\* m.l.Unlock(); Update has returned, Pos is about to return pos
Unlock(t) ==
    /\ thr[t].pc = "unlock"
    /\ l' = 0
    /\ thr' = [thr EXCEPT ![t] = IF thr[t].op = "Pos"
                                  THEN [thr[t] EXCEPT !.pc = "ret"]
                                  ELSE NoThread]
    /\ UNCHANGED <<state, pc, result, rsHandlers, rsReaders, cur, evNo, up,
                   tasks, erg, verdict, now, durable, disk, lastCall,
                   lastLoad, expectPos, cause, stopTrace, master, written>>

\* Pos: return pos
PosReturn(t) ==
    /\ thr[t].op = "Pos" /\ thr[t].pc = "ret"
    /\ thr' = [thr EXCEPT ![t] = NoThread]
    /\ UNCHANGED <<state, pc, result, rsHandlers, rsReaders, cur, evNo, up,
                   tasks, erg, verdict, now, durable, disk, lastCall,
                   lastLoad, expectPos, cause, stopTrace, master, l, written>>

LockNext ==
    \/ \E res \in StatusResults : StoreLoad(res)
    \/ \E t \in Threads, a \in UpdateArgs : CallUpdate(t, a)
    \/ \E t \in Threads : CallPos(t)
    \/ \E t \in Threads : Lock(t)
    \/ \E t \in Threads : UpdateName(t)
    \/ \E t \in Threads : UpdatePosition(t)
    \/ \E t \in Threads : PosName(t)
    \/ \E t \in Threads : PosPosition(t)
    \/ \E t \in Threads : Unlock(t)
    \/ \E t \in Threads : PosReturn(t)

LockSpec == Init /\ [][LockNext]_vars

\* ================================================================ claims
\* the goroutines of the current cycle that run or ran h's Do
DoTasksOf(h) == {i \in DOMAIN tasks : tasks[i].op = "Do" /\ tasks[i].h = h}

\* number of calls of h's Do in the current cycle
DoCallsOf(h) ==
    SumSeq([i \in DOMAIN tasks |->
               IF tasks[i].op = "Do" /\ tasks[i].h = h THEN tasks[i].calls ELSE 0])

\* C1 (ordering): a goroutine running a handler's Do belongs to the one
\* event the Canal is dispatching, and the goroutines of two events never
\* exist together: the dispatch of an event has collected every handler
\* before the next event is dispatched.
C1_Ordering ==
    /\ \A i \in DOMAIN tasks :
          tasks[i].op = "Do" /\ tasks[i].st = "started"
              => pc = "dispatching" /\ tasks[i].ev = cur.no
    /\ Cardinality({tasks[i].ev : i \in DOMAIN tasks}) <= 1

\* the second event of the stream is in flight with two handlers, one of
\* which has returned
C1_Witness ==
    /\ pc = "dispatching" /\ cur.no = 2
    /\ Len(tasks) = 2
    /\ tasks[1].st = "done" /\ tasks[2].st = "started"

\* C2 (verdict rule): when processRowsEventHandler has returned, its
\* result is Interrupted if and only if the Do of a matched handler returned
\* an error of kind Interrupted, and it is nil otherwise.
C2_VerdictRule ==
    pc = "dispatched" =>
        /\ verdict \in {"nil", "Interrupted"}
        /\ verdict = "Interrupted"
              <=> \E i \in DOMAIN tasks : tasks[i].out = "Interrupted"

\* two handlers matched; the first returned Interrupted, the second nil
C2_Witness ==
    /\ pc = "dispatched" /\ Len(tasks) = 2
    /\ tasks[1].out = "Interrupted" /\ tasks[2].out = "None"
    /\ verdict = "Interrupted"

\* C3 (fan-out isolation): one goroutine is started per matched handler
\* (the registry is compared while the dispatch holds its lock) and none is
\* dropped while the dispatch lasts; when the verdict is produced every one
\* of them has run its Do to the end, whatever the others returned.
C3_FanOut ==
    /\ pc = "dispatching" =>
          Len(tasks) = (IF cur.table # "" THEN Len(Lookup(rsHandlers, cur.table))
                           ELSE 0) + Len(Lookup(rsHandlers, ""))
    /\ pc \in {"dispatching", "dispatched"} =>
          \A i \in DOMAIN tasks : tasks[i].op = "Do" /\ tasks[i].ev = cur.no
    /\ pc = "dispatched" =>
          /\ Len(tasks) = Len(SelectSeq(tasks, LAMBDA t : t.st = "done"))
          /\ \A i \in DOMAIN tasks : tasks[i].out \in Outcomes

\* two handlers matched; one returned Interrupted, the other one an error
\* of another kind
C3_Witness ==
    /\ pc = "dispatched" /\ Len(tasks) = 2
    /\ tasks[1].out = "Interrupted" /\ tasks[2].out = "Other"

\* C4 (wildcard and exact registration): the handlers invoked for an event
\* of table T are those registered under T or under the empty filter, and
\* no others (the registry is compared while the dispatch holds its lock).
C4_WildcardExact ==
    pc = "dispatching" =>
        \A h \in Handlers :
            DoTasksOf(h) # {}
                <=> h \in Range(Lookup(rsHandlers, cur.table))
                             \cup Range(Lookup(rsHandlers, ""))

\* h1 is registered under orders and h2 under the empty filter: an event of
\* customers went to h2 alone
C4_Witness ==
    /\ pc = "dispatching" /\ cur.table = "customers"
    /\ DOMAIN rsHandlers = {"orders", ""}
    /\ rsHandlers["orders"] = <<"h1">> /\ rsHandlers[""] = <<"h2">>
    /\ Len(tasks) = 1 /\ tasks[1].h = "h2" /\ tasks[1].st = "done"

\* C5 (one invocation per registration): when every goroutine of the
\* dispatch of an event of a non-empty table T has returned (the dispatch
\* still holds its lock), Do was called on each handler as many
\* times as the handler is registered under T plus under the empty filter,
\* also when a call failed.
C5_ExactlyOnce ==
    pc = "dispatching" /\ WaitReady(tasks) /\ cur.table # "" =>
        \A h \in Handlers :
            DoCallsOf(h) = Count(h, Lookup(rsHandlers, cur.table))
                               + Count(h, Lookup(rsHandlers, ""))

\* h1 is registered twice under orders: it was called twice for an event of
\* orders, and a call that failed was not repeated
C5_Witness ==
    /\ pc = "dispatching" /\ cur.table = "orders"
    /\ Lookup(rsHandlers, "orders") = <<"h1", "h1">>
    /\ Len(tasks) = 2 /\ tasks[1].out = "Other" /\ tasks[2].out = "None"
    /\ DoCallsOf("h1") = 2

\* C6 (interrupt stops the stream): the step the Canal takes after a
\* dispatch returned Interrupted leads from Running to Stopping, and once
\* the Canal has left Running no further item of the stream is taken and no
\* dispatch begins.
C6_InterruptStops ==
    [][/\ (pc = "dispatched" /\ verdict = "Interrupted" /\ pc' # pc)
              => state = "Running" /\ state' = "Stopping"
       /\ (state = "Stopping" \/ (state = "Stopped" /\ pc = "done"))
              => evNo' = evNo /\ pc' # "dispatching" /\ state' # "Running"]_vars

\* the first event was interrupted; the Canal has stopped without taking
\* the second one
C6_Witness ==
    /\ state = "Stopped" /\ pc = "done"
    /\ cause = "interrupted" /\ evNo = 1 /\ evNo < MaxEvents

\* C7 (position advances only on success): except between the successful
\* return of a dispatch and the Update that follows it, the in-memory
\* position is the position of the last successfully dispatched event, or
\* the loaded or rotated position if there is none; a dispatch in flight or
\* interrupted leaves it unchanged.
C7_PositionOnSuccess ==
    ~(pc = "dispatched" /\ verdict = "nil") => Pos(master) = expectPos

\* the first event was dispatched with success, the second was interrupted:
\* the position is that of the first
C7_Witness ==
    /\ state = "Stopping" /\ cause = "interrupted" /\ evNo = 2
    /\ up.pos = 8 /\ master.Name = 5 /\ master.Position = 7

\* the registrations of h in the registry
RegsOf(h) ==
    {ki \in Filters \X (1..MaxRegs) :
        /\ ki[1] \in DOMAIN rsHandlers
        /\ ki[2] \in DOMAIN rsHandlers[ki[1]]
        /\ rsHandlers[ki[1]][ki[2]] = h}

\* the goroutines of the current cycle that run or ran h's Complete
CompleteTasksOf(h) ==
    {i \in DOMAIN tasks : tasks[i].op = "Complete" /\ tasks[i].h = h}

\* C8 (rotation flush ordering): the flush of a rotation runs one Complete
\* per registration (compared while the flush holds its lock), and when the
\* forced save of the rotation is made every one of them has returned.
C8_RotationFlushOrder ==
    [][/\ (state = "Running" /\ pc = "flushing")
              => \A h \in Handlers :
                    Cardinality(CompleteTasksOf(h)) = Cardinality(RegsOf(h))
       /\ (state = "Running" /\ pc = "rotated" /\ pc' = "idle")
              => /\ \A i \in DOMAIN tasks :
                       tasks[i].op = "Complete" /\ tasks[i].st = "done"
                 /\ lastCall'.force /\ lastCall'.persisted]_vars

\* a rotation with two registered handlers: both Completes have returned,
\* the rotation is applied and the save is about to be forced
C8_Witness ==
    /\ state = "Running" /\ pc = "rotated"
    /\ Len(tasks) = 2 /\ tasks[1].h # tasks[2].h
    /\ tasks[1].st = "done" /\ tasks[2].st = "done"
    /\ master.Name = 6

\* C9 (clean stop sequence): a Canal that left Running does, in this
\* order, the flush, the forced save and the closing of the subscription,
\* and is Stopped only after them; after an Interrupted verdict its caller
\* gets the error Interrupted.
C9_CleanStop ==
    /\ state = "Stopping" =>
          stopTrace = CASE pc \in {"stop", "flushing"} -> <<>>
                        [] pc = "flushed" -> <<"flush">>
                        [] pc = "saved" -> <<"flush", "save">>
                        [] OTHER -> <<"flush", "save", "close">>
    /\ state = "Stopped" /\ cause # "none" =>
          /\ stopTrace = <<"flush", "save", "close">>
          /\ cause = "interrupted" => result = "Interrupted"
    /\ state \in {"Initializing", "Running"} => stopTrace = <<>> /\ result = "none"

\* the Canal stopped after an Interrupted verdict, less than a second after
\* its last save
C9_Witness ==
    /\ state = "Stopped" /\ pc = "done" /\ cause = "interrupted"
    /\ result = "Interrupted"
    /\ stopTrace = <<"flush", "save", "close">>
    /\ lastCall.at - lastCall.prev < Second

C11_ForcedSaveDurable ==
    (pc = "done" /\ lastCall.called /\ lastCall.ret = "nil") =>
        /\ lastCall.force /\ lastCall.persisted
        /\ durable = <<Pos(master)>>

\* C12 (persistence failure): a Save that was not debounced while durable
\* storage could not be written reports the failure to its caller, and
\* leaves the Position and the time of the last save as they were.
C12_PersistFailure ==
    (lastCall.called /\ lastCall.persisted /\ lastCall.disk = "failing") =>
        /\ lastCall.ret # "nil"
        /\ master.lastSaveTime = lastCall.prev

\* C13 (position monotonicity): as long as the Canal's Position keeps its
\* log file name its offset never decreases; an offset smaller than the one
\* before it comes with another log file name.
C13_Monotonic ==
    [][master'.Name = master.Name => master'.Position >= master.Position]_vars

\* a rotation took the Position to a smaller offset in the next file, and
\* the event after it advanced the offset in that file
C13_Witness ==
    /\ state = "Running" /\ pc = "updated"
    /\ up.file = 6 /\ master.Name = 6
    /\ master.Position = 5

\* the life cycle Stopped -> Initializing -> Running -> Stopping -> Stopped
LifeCycle ==
    {<<"Stopped", "Initializing">>, <<"Initializing", "Running">>,
     <<"Running", "Stopping">>, <<"Stopping", "Stopped">>}

HandlersOf(ts) == [i \in DOMAIN ts |-> ts[i].h]

\* C15 (registration and dispatch never race): the registry does not change
\* while a dispatch or a flush holds the read lock, which each does from its
\* start to its return; the handlers invoked for an event are those the
\* registry resolved when the dispatch took the lock, and stay those until
\* the dispatch returns.
C15_NoRace ==
    [][ /\ rsReaders > 0 => rsHandlers' = rsHandlers
        /\ pc \in {"dispatching", "flushing"} => rsReaders > 0
        /\ (pc = "idle" /\ pc' = "dispatching") =>
              HandlersOf(tasks') = HandlersFor(rsHandlers, cur'.table)
        /\ (pc = "dispatching" /\ pc' \in {"dispatching", "dispatched"}) =>
              /\ HandlersOf(tasks') = HandlersOf(tasks)
              /\ HandlersOf(tasks') = HandlersFor(rsHandlers', cur.table) ]_vars

\* the second event is in flight with the one handler registered, and holds
\* the read lock; the registry has room for another registration
C15_Witness ==
    /\ pc = "dispatching" /\ rsReaders = 1 /\ cur.no = 2
    /\ RegCount(rsHandlers) = 1 /\ RegCount(rsHandlers) < MaxRegs
    /\ Len(tasks) = 1 /\ tasks[1].st = "started"
    /\ ~ENABLED (\E t \in Filters, hs \in RegArgs : Register(t, hs))

\* C16 (registry is append-only): every step keeps every list of the registry
\* as a prefix of what it becomes; a step that changes the registry is a
\* registration, which appends its handlers in argument order to the list of
\* its filter and leaves the other lists as they are, and it is no step of a
\* dispatch or a flush.
C16_AppendOnly ==
    [][ /\ \A k \in DOMAIN rsHandlers :
              /\ k \in DOMAIN rsHandlers'
              /\ Len(rsHandlers'[k]) >= Len(rsHandlers[k])
              /\ SubSeq(rsHandlers'[k], 1, Len(rsHandlers[k])) = rsHandlers[k]
        /\ rsHandlers' # rsHandlers =>
              /\ \E t \in Filters, hs \in RegArgs :
                    /\ DOMAIN rsHandlers' = DOMAIN rsHandlers \cup {t}
                    /\ rsHandlers'[t] = Lookup(rsHandlers, t) \o hs
                    /\ \A k \in DOMAIN rsHandlers \ {t} :
                          rsHandlers'[k] = rsHandlers[k]
              /\ pc' = pc /\ tasks' = tasks /\ rsReaders' = rsReaders ]_vars

\* h2 was registered under orders, and h1 after it
C16_Witness ==
    /\ DOMAIN rsHandlers = {"orders"}
    /\ rsHandlers["orders"] = <<"h2", "h1">>
    /\ state = "Running"

\* C17 (flush coverage): a flush, of a rotation or of a stop, starts one
\* goroutine per registration of every filter (compared while the flush
\* holds its lock), each of which calls Complete once; when
\* flushEventHandlers has returned every one of them has returned.
C17_FlushCoverage ==
    /\ pc = "flushing" =>
          /\ Len(tasks) = RegCount(rsHandlers)
          /\ \A h \in Handlers :
                Cardinality(CompleteTasksOf(h)) = Cardinality(RegsOf(h))
    /\ pc \in {"flushing", "flushed"} =>
          \A i \in DOMAIN tasks :
              /\ tasks[i].op = "Complete"
              /\ tasks[i].calls = (IF tasks[i].st = "done" THEN 1 ELSE 0)
    /\ pc = "flushed" => \A i \in DOMAIN tasks : tasks[i].st = "done"

\* h1 is registered under orders and under the empty filter: the flush of
\* a stop called its Complete twice, and has returned
C17_Witness ==
    /\ state = "Stopping" /\ pc = "flushed"
    /\ DOMAIN rsHandlers = {"orders", ""}
    /\ rsHandlers["orders"] = <<"h1">> /\ rsHandlers[""] = <<"h1">>
    /\ Len(tasks) = 2
    /\ \A i \in DOMAIN tasks : tasks[i].h = "h1" /\ tasks[i].calls = 1

\* C18 (flush verdict rule): when flushEventHandlers has returned, its
\* result is Interrupted if and only if a Complete returned an error of kind
\* Interrupted; an error of another kind is not returned by its goroutine,
\* and a flush of an empty registry returns nil.
C18_FlushVerdict ==
    pc = "flushed" =>
        /\ verdict \in {"nil", "Interrupted"}
        /\ verdict = "Interrupted"
              <=> \E i \in DOMAIN tasks : tasks[i].out = "Interrupted"
        /\ \A i \in DOMAIN tasks : tasks[i].out = "Other" => tasks[i].ret = "nil"
        /\ tasks = <<>> => verdict = "nil"

\* a flush of two registrations: one Complete returned an error of another
\* kind, the other one nil, and the flush returned nil
C18_Witness ==
    /\ pc = "flushed" /\ Len(tasks) = 2
    /\ tasks[1].out = "Other" /\ tasks[2].out = "None"
    /\ verdict = "nil"

\* C19 (Interrupted during a rotation flush): when the flush of a rotation
\* has returned and a Complete returned Interrupted, so that the flush
\* returned Interrupted, the Canal's next step takes it to Stopping with the
\* Position as it was: the rotation is not applied, and it is not applied
\* once Running is left.
C19_RotationInterrupt ==
    [][ /\ ( /\ state = "Running" /\ pc = "flushed"
             /\ \/ verdict = "Interrupted"
                \/ \E i \in DOMAIN tasks : tasks[i].out = "Interrupted"
             /\ pc' # pc )
            => /\ state' = "Stopping" /\ cause' = "interrupted"
               /\ master' = master /\ up' = up
        /\ state \in {"Stopping", "Stopped"} =>
              Pos(master') = Pos(master) /\ state' # "Running" ]_vars

\* the first item of the stream was a rotation whose flush returned
\* Interrupted: the Canal is stopping, its Position still in the old file
C19_Witness ==
    /\ state = "Stopping" /\ pc = "stop" /\ cause = "interrupted"
    /\ evNo = 1 /\ up.pos = master.Position
    /\ verdict = "Interrupted"
    /\ master.Name = 5 /\ up.file = 5

\* C20 (rotation is applied after the flush): while the flush of a rotation
\* lasts, and while a Complete of it runs, the Position names the old log
\* file; the Position of a running Canal changes its file name only when the
\* flush has returned nil with every Complete returned, and to the new file;
\* when the rotation has been handled the Canal is in Running and its
\* Position is the start of the new file.
C20_RotationAfterFlush ==
    [][ /\ (state = "Running" /\ pc = "flushing") =>
              cur.kind = "rotate" /\ master.Name = up.file
                  /\ master.Name # cur.file
        /\ ( /\ state = "Running"
             /\ \E i \in DOMAIN tasks :
                   tasks[i].op = "Complete" /\ tasks[i].st = "started" )
            => master.Name # cur.file
        /\ (state = "Running" /\ master'.Name # master.Name) =>
              /\ pc = "flushed" /\ verdict = "nil"
              /\ \A i \in DOMAIN tasks : tasks[i].st = "done"
              /\ master'.Name = cur.file
        /\ (state = "Running" /\ pc = "rotated" /\ pc' = "idle") =>
              /\ state' = "Running"
              /\ Pos(master') = [Name |-> cur.file, Pos |-> cur.pos] ]_vars

\* a rotation with a registered handler has been handled: the Canal is in
\* Running, at the start of the next log file
C20_Witness ==
    /\ state = "Running" /\ pc = "idle" /\ evNo = 1
    /\ RegCount(rsHandlers) >= 1
    /\ lastCall.called /\ lastCall.force
    /\ master.Name = 6 /\ master.Position = 4 /\ up.file = 6

\* C21 (no handlers is a no-op): a dispatch of an event of a table with no
\* handler under its name and none under the empty filter starts no
\* goroutine, so that its Wait has nothing to wait for, and returns nil.
C21_NoHandlersNoOp ==
    /\ ( /\ pc = "dispatching"
         /\ Lookup(rsHandlers, cur.table) = <<>>
         /\ Lookup(rsHandlers, "") = <<>> )
        => tasks = <<>> /\ WaitReady(tasks) /\ WaitResult(erg) = "nil"
    /\ (pc = "dispatched" /\ tasks = <<>>) => verdict = "nil"

\* h1 is registered under orders alone: an event of customers was
\* dispatched to nobody and the dispatch returned nil
C21_Witness ==
    /\ pc = "dispatched" /\ cur.table = "customers"
    /\ DOMAIN rsHandlers = {"orders"} /\ rsHandlers["orders"] = <<"h1">>
    /\ tasks = <<>> /\ verdict = "nil"

\* C22 (load is all-or-nothing): a load of a readable status returns no
\* error and a masterInfo with the name and the offset of the status, which
\* becomes the Position; a load of anything else returns an error and no
\* masterInfo, and the store is left without a Position; the error is
\* DataUnavailable exactly when the first or the second column could not be
\* read; the load is not tried again.
C22_LoadAllOrNothing ==
    lastLoad.called =>
        /\ lastLoad.res.kind = "ok" =>
              /\ lastLoad.ret.err = "nil"
              /\ Pos(lastLoad.ret.m) = [Name |-> lastLoad.res.name,
                                        Pos |-> Uint32(lastLoad.res.pos)]
        /\ lastLoad.res.kind # "ok" =>
              /\ lastLoad.ret.err # "nil" /\ lastLoad.ret.m = <<>>
              /\ result = lastLoad.ret.err
              /\ pc = "done" /\ Pos(master) = [Name |-> 0, Pos |-> 0]
        /\ lastLoad.ret.err \in DataUnavailable
              <=> lastLoad.res.kind \in {"col0Err", "col1Err"}
        /\ ~ENABLED (\E res \in StatusResults : StoreLoad(res))

\* the second column of the status could not be read: the load failed with
\* DataUnavailable and there is no Position
C22_Witness ==
    /\ lastLoad.called /\ lastLoad.res.kind = "col1Err"
    /\ lastLoad.ret.err = "Failed to fetch first row with 2nd column"
    /\ lastLoad.ret.m = <<>>
    /\ pc = "done" /\ master.Name = 0

\* C23 (Update is in-memory only): a step that changes the Position of a
\* loaded store is an Update(name, pos): the Position becomes exactly
\* (name, pos), and the time of the last save, the durable record and
\* everything else stay as they were; nothing is returned.
C23_UpdateInMemory ==
    [][ (pc = "store" /\ Pos(master') # Pos(master)) =>
          /\ \E name \in {5, 6}, pos \in {4, 7} :
                Pos(master') = [Name |-> name, Pos |-> pos]
          /\ master'.lastSaveTime = master.lastSaveTime
          /\ durable' = durable /\ disk' = disk
          /\ now' = now /\ lastCall' = lastCall
          /\ result' = result /\ pc' = pc ]_vars

\* a store that was saved and updated: the Position is that of the Update,
\* the time of the last save that of the Save, and nothing is in storage
C23_Witness ==
    /\ pc = "store" /\ lastCall.called /\ lastCall.persisted
    /\ master.lastSaveTime = lastCall.at
    /\ Pos(master) = [Name |-> 6, Pos |-> 7]
    /\ durable = <<>>

\* the (name, offset) pairs the store has held: that of the load and those
\* given to Update
Held == written \cup {Pos(lastLoad.ret.m)}

\* C24 (Snapshot is atomic): whatever the interleaving of the calls, the
\* pair Pos() returns is the pair of the load or that of one Update, and no
\* step of a Pos() changes the masterInfo.
C24_SnapshotAtomic ==
    [][ /\ \A t \in Threads :
              (thr'[t].op = "Pos" /\ thr'[t].pc = "ret") =>
                  [Name |-> thr'[t].name, Pos |-> thr'[t].pos] \in Held
        /\ \A t \in Threads :
              (thr[t].op = "Pos" /\ thr'[t] # thr[t]) => master' = master ]_vars

\* a Pos() is about to return the pair of the second Update, which
\* another goroutine is waiting to overwrite
C24_Witness ==
    /\ thr[1].op = "Pos" /\ thr[1].pc = "ret"
    /\ thr[1].name = 6 /\ thr[1].pos = 7
    /\ written = UpdateArgs
    /\ thr[2].op = "Update" /\ thr[2].pc = "lock" /\ thr[2].name = 5

\* C25 (Snapshot readers do not block each other): a Pos() that wants the
\* lock while another Pos() holds it takes it without waiting.
C25_ReadersShare ==
    \A t \in Threads :
        ( /\ thr[t].op = "Pos" /\ thr[t].pc = "lock"
          /\ l # 0 /\ thr[l].op = "Pos" )
        => ENABLED Lock(t)

\* a step of the program that lets goroutine i out of its wait for the
\* write lock, or ends the cycle it belongs to
Proceeds(i) ==
    /\ ReentrantNext
    /\ \/ pc' # pc
       \/ rsReaders' # rsReaders
       \/ i \notin DOMAIN tasks'
       \/ tasks'[i].st # "registering"

\* C28 (registration blocks during a dispatch or a flush): the read lock is
\* held exactly while a dispatch or a flush lasts, and as long as it lasts
\* no call of RegisterRowsEventHandler can return; a goroutine whose handler
\* waits in RegisterRowsEventHandler belongs to a cycle that holds the read
\* lock and waits for it, and no step lets either of them go on.
C28_RegisterBlocks ==
    /\ rsReaders > 0 <=> pc \in {"dispatching", "flushing"}
    /\ pc \in {"dispatching", "flushing"} =>
          ~ENABLED (\E t \in Filters, hs \in RegArgs : Register(t, hs))
    /\ \A i \in DOMAIN tasks :
          tasks[i].st = "registering" =>
              /\ pc \in {"dispatching", "flushing"}
              /\ ~WaitReady(tasks)
              /\ ~ENABLED DispatchEnd /\ ~ENABLED FlushEnd
              /\ ~ENABLED Proceeds(i)

\* of the two goroutines of a dispatch one has returned, and the handler
\* of the other one waits in RegisterRowsEventHandler
C28_Witness ==
    /\ pc = "dispatching" /\ Len(tasks) = 2
    /\ tasks[1].st = "registering" /\ tasks[1].op = "Do"
    /\ tasks[2].st = "done"
    /\ rsReaders = 1

\* C26 (dispatch liveness and stall): Wait can return in a dispatch exactly
\* when every goroutine it started has returned; with every handler call
\* returning, a dispatch and a flush end with a verdict and a stopping Canal
\* reaches Stopped; and over a step that leaves a goroutine running the
\* dispatch has not returned and no further event is taken.
C26_LivenessAndStall ==
    /\ [](pc = "dispatching" =>
            (ENABLED DispatchEnd <=> \A i \in DOMAIN tasks : tasks[i].st = "done"))
    /\ (pc = "dispatching") ~> (pc = "dispatched" /\ verdict \in {"nil", "Interrupted"})
    /\ (pc = "flushing") ~> (pc = "flushed" /\ verdict \in {"nil", "Interrupted"})
    /\ (state = "Stopping") ~> (state = "Stopped")
    /\ [][ (\E i \in DOMAIN tasks :
               /\ tasks[i].st = "started"
               /\ i \in DOMAIN tasks' /\ tasks'[i].st = "started")
            => pc' = pc /\ evNo' = evNo /\ cur' = cur ]_vars

\* the Canal took two events, was asked to shut down and has stopped
C26_Witness ==
    /\ state = "Stopped" /\ cause = "shutdown" /\ evNo = 2
    /\ stopTrace = <<"flush", "save", "close">>
    /\ RegCount(rsHandlers) = 2

\* C27 (handler resolution order): the goroutines of a dispatch are started
\* for the handlers registered under the event's table, in the order of
\* their registration, followed by those registered under the empty filter,
\* in the order of theirs (the registry is compared while the dispatch
\* holds its lock); the order in which they return is free.
C27_ResolutionOrder ==
    pc = "dispatching" =>
        /\ HandlersOf(tasks) =
              (IF cur.table # "" THEN Lookup(rsHandlers, cur.table) ELSE <<>>)
                  \o Lookup(rsHandlers, "")
        /\ \A i \in DOMAIN tasks : tasks[i].op = "Do" /\ tasks[i].ev = cur.no

\* h2 is registered under the empty filter and h1, after it, under orders:
\* for an event of orders h1 was started first; h2 has returned before it
C27_Witness ==
    /\ pc = "dispatching" /\ cur.table = "orders"
    /\ DOMAIN rsHandlers = {"orders", ""}
    /\ rsHandlers["orders"] = <<"h1">> /\ rsHandlers[""] = <<"h2">>
    /\ HandlersOf(tasks) = <<"h1", "h2">>
    /\ tasks[1].st = "started" /\ tasks[2].st = "done"

\* C29 (event of the empty table name): the goroutines of a dispatch of an
\* event whose table name is empty are those of the handlers registered
\* under the empty filter, one per registration, and when all have returned
\* each such handler was called once per registration.
C29_EmptyNameOnce ==
    (pc = "dispatching" /\ cur.table = "") =>
        /\ HandlersOf(tasks) = Lookup(rsHandlers, "")
        /\ WaitReady(tasks) =>
              \A h \in Handlers : DoCallsOf(h) = Count(h, Lookup(rsHandlers, ""))

\* h1 is registered under the empty filter and h2 under orders: an event
\* with no table name went to h1, once
C29_Witness ==
    /\ pc = "dispatching" /\ cur.table = ""
    /\ DOMAIN rsHandlers = {"orders", ""}
    /\ rsHandlers[""] = <<"h1">> /\ rsHandlers["orders"] = <<"h2">>
    /\ Len(tasks) = 1 /\ tasks[1].h = "h1"
    /\ tasks[1].st = "done" /\ tasks[1].calls = 1

\* C30 (cancellation of the cycle's context): while a dispatch or a flush
\* lasts, the context of its errgroup is cancelled exactly when a handler
\* has returned Interrupted, whatever the other goroutines are at; when the
\* cycle has ended it is cancelled.
C30_ContextCancel ==
    /\ pc \in {"dispatching", "flushing"} =>
          (erg.cancelled <=>
              \E i \in DOMAIN tasks :
                  tasks[i].st = "done" /\ tasks[i].out = "Interrupted")
    /\ pc \in {"dispatched", "flushed"} => erg.cancelled

\* in a dispatch one handler has returned Interrupted and the other one is
\* running: the context is cancelled
C30_Witness ==
    /\ pc = "dispatching" /\ Len(tasks) = 2
    /\ tasks[1].st = "done" /\ tasks[1].out = "Interrupted"
    /\ tasks[2].st = "started"
    /\ erg.cancelled

\* the orders in which the goroutines of the cycle can return
ReturnOrders ==
    {o \in [DOMAIN tasks -> DOMAIN tasks] :
        \A i, j \in DOMAIN o : i # j => o[i] # o[j]}

\* C31 (the verdict is deterministic in the handler outcomes): when a
\* dispatch has returned, its verdict is the one Wait gives for the same
\* outcomes with the goroutines returning in any order whatever; of an
\* Interrupted verdict only the goroutine it comes from depends on the
\* order, and that one returned Interrupted.
C31_VerdictDeterministic ==
    pc = "dispatched" =>
        /\ \A o \in ReturnOrders :
              WaitResult(WaitAfter(NoErg, tasks, o)) = verdict
        /\ verdict # "nil" =>
              /\ erg.from \in DOMAIN tasks
              /\ tasks[erg.from].ret = verdict

\* both handlers of an event returned Interrupted, the second before the
\* first: the verdict is Interrupted, and it is the error of the second
C31_Witness ==
    /\ pc = "dispatched" /\ Len(tasks) = 2
    /\ tasks[1].out = "Interrupted" /\ tasks[2].out = "Interrupted"
    /\ verdict = "Interrupted" /\ erg.from = 2

\* C32 (a forced Save restarts the debounce window): every Save that is not
\* debounced, forced or not, leaves the last-persist timestamp at the time
\* of the call; so the timestamp a Save finds after a forced Save is the
\* time of that forced Save, and a Save(force=false) less than one second
\* after it changes nothing.
C32_ForcedRestartsWindow ==
    lastCall.called =>
        /\ lastCall.persisted => master.lastSaveTime = lastCall.at
        /\ lastCall.prevForce => lastCall.prev = lastCall.prevAt
        /\ (/\ lastCall.prevForce /\ ~lastCall.force
            /\ lastCall.at - lastCall.prevAt < Second)
              => /\ ~lastCall.persisted
                 /\ master.lastSaveTime = lastCall.prevAt

\* a Save(force=false) made 900 ms after a Save(force=true), itself made
\* more than a second after the load, was debounced
C32_Witness ==
    /\ lastCall.called /\ ~lastCall.force /\ lastCall.prevForce
    /\ lastCall.prevAt > BootTime + Second
    /\ lastCall.at - lastCall.prevAt = Second - 1
    /\ ~lastCall.persisted /\ master.lastSaveTime = lastCall.prevAt

C34_OffsetTruncated ==
    lastLoad.called /\ lastLoad.res.kind = "ok" =>
        /\ lastLoad.ret.err = "nil"
        /\ lastLoad.ret.m.Position = lastLoad.res.pos % UintRange
        /\ lastLoad.res.pos >= UintRange
              => lastLoad.ret.m.Position # lastLoad.res.pos

\* the query answered with an offset beyond the range of uint32, and the
\* loaded Position is that offset less the range
C34_Witness ==
    /\ lastLoad.called /\ lastLoad.res.kind = "ok"
    /\ lastLoad.res.pos = UintRange + 6
    /\ lastLoad.ret.err = "nil" /\ lastLoad.ret.m.Position = 6
    /\ pc = "store" /\ master.Position = 6

====
